---- MODULE Spec2Model ----
(***************************************************************************)
(* Model of crates/gpui/src/video.rs: the VideoFrame value, its four       *)
(* constructors, its accessors, its Debug implementation, and the shared   *)
(* ownership (Arc) of the BGRA pixel buffer.                               *)
(*                                                                         *)
(* Integers.  TLC computes with 32-bit signed integers, so a u32 cannot be *)
(* represented at full width.  A u32 is modelled as an unsigned integer of *)
(* WordBits bits, and a usize as an integer wide enough never to wrap in   *)
(* the model; every u32 operation of the source is reduced modulo          *)
(* 2^WordBits exactly where the source reduces modulo 2^32.  The boundary  *)
(* case of the source (width = height = 32768, width*height*4 = 2^32) is   *)
(* the case width = height = HalfWord of the model.                        *)
(***************************************************************************)
EXTENDS Integers, Sequences, FiniteSets, TLC

\* ---------------------------------------------------------------- bounds
WordBits == 5
MaxFrames == 2
MaxArcs == 2
MaxStrong == 3

\* --------------------------------------------------------- integer types
U32Mod == 2 ^ WordBits
\* a power of two d with d * d * 4 >= U32Mod (32768 for a 32-bit word)
HalfWord == 2 ^ ((WordBits - 1) \div 2)
BytesPerPixel == 4

Threads == {1, 2}
FrameIds == 1 .. MaxFrames
ArcIds == 1 .. MaxArcs

\* a Vec<u8> of n bytes; two seeds differ in every byte
Pattern(n, s) == [i \in 1 .. n |-> (s * 7 + i) % 256]
\* the length of a correctly sized buffer for width = height = HalfWord
BigLen == HalfWord * HalfWord * 4

\* u32 arguments the callers pass for width and height
Dims == {0, 1, 2, HalfWord}
\* the byte buffers the callers pass
Vecs == {Pattern(n, s) : n \in {0, 4, 10, 16, BigLen}, s \in {0, 1}}
\* CVPixelBuffer handles: two of equal dimensions, and two reporting a usize
\* dimension that does not fit a u32
CVPixelBuffers ==
  {[id |-> 1, width |-> 1, height |-> 2],
   [id |-> 2, width |-> 1, height |-> 2],
   [id |-> 3, width |-> U32Mod + 2, height |-> 1],
   [id |-> 4, width |-> 2, height |-> U32Mod + 1]}
Textures == {1, 2}
SubIndexes == {0, 1}
Platforms == {"macos", "windows", "linux"}

\* the smaller inputs of the specifications that hold several frames at once
FewDims == {1, HalfWord}
FewVecs == {Pattern(4, 0), Pattern(4, 1)}
FewCVPixelBuffers == {b \in CVPixelBuffers : b.id \in {1, 2}}

VARIABLES
  build,     \* the cfg of the build: debug_assertions, overflow_checks
  platform,  \* target_os
  heap,      \* ArcIds -> the ArcInner of each allocation: vec, strong count
  held,      \* ArcIds -> number of Arc<Vec<u8>> values the callers hold
  frames,    \* FrameIds -> the VideoFrame value in that slot
  pc,        \* Threads -> what the thread is in the middle of
  last       \* the last call: its name, arguments and result

vars == <<build, platform, heap, held, frames, pc, last>>

NoBuf == [live |-> FALSE, vec |-> <<>>, strong |-> 0]
NoFrame == [data |-> [tag |-> "None"], width |-> 0, height |-> 0]
Idle == [kind |-> "idle"]

\* ------------------------------------------------------ VideoFrameData
Bgra(arc) == [tag |-> "Bgra", arc |-> arc]
CoreVideo(buffer) == [tag |-> "CoreVideo", buffer |-> buffer]
D3D11(texture, subresource_index) ==
  [tag |-> "D3D11", texture |-> texture, subresource_index |-> subresource_index]

VideoFrame(data, width, height) ==
  [data |-> data, width |-> width, height |-> height]

\* ---------------------------------------------------------- arithmetic
\* a * b on u32: panics when overflow checks are compiled in, wraps otherwise
MulU32(a, b) ==
  IF a * b < U32Mod
    THEN [panic |-> FALSE, val |-> a * b]
    ELSE IF build.overflow_checks
      THEN [panic |-> TRUE, val |-> 0]
      ELSE [panic |-> FALSE, val |-> (a * b) % U32Mod]

\* mutant: the expected length computed without the height
ExpectedLen_without_height(width, height) ==
  MulU32(width, BytesPerPixel)

\* (width * height * 4) as usize
ExpectedLen(width, height) ==
  LET wh == MulU32(width, height)
  IN IF wh.panic THEN wh ELSE MulU32(wh.val, BytesPerPixel)

\* x as u32, for a usize x
AsU32(x) == x % U32Mod

\* debug_assert_eq!(left, right): compiled out without debug assertions, and
\* then right is not evaluated either
debug_assert_eq(left, width, height) ==
  IF ~build.debug_assertions
    THEN "ok"
    ELSE LET right == ExpectedLen(width, height)
         IN IF right.panic THEN "overflow_panic"
            ELSE IF left = right.val THEN "ok" ELSE "assert_failed"

\* the check of from_bgra on its Vec<u8>
from_bgra_check(buffer, width, height) ==
  debug_assert_eq(Len(buffer), width, height)

\* mutant: the shared-buffer check compares against width * height pixels,
\* not bytes
from_bgra_arc_check_in_pixels(arc, width, height) ==
  IF ~build.debug_assertions
    THEN "ok"
    ELSE LET right == MulU32(width, height)
         IN IF right.panic THEN "overflow_panic"
            ELSE IF Len(heap[arc].vec) = right.val THEN "ok"
            ELSE "assert_failed"

\* the check of from_bgra_arc on its Arc<Vec<u8>> (buffer.len() through Deref)
from_bgra_arc_check(arc, width, height) ==
  debug_assert_eq(Len(heap[arc].vec), width, height)

\* ------------------------------------------------------------ accessors
size(self) == <<self.width, self.height>>

None == [some |-> FALSE]
Some(x) == [some |-> TRUE, val |-> x]
\* Some(buffer.as_slice()): the slice borrows the Vec inside the allocation
as_bytes(self) ==
  IF self.data.tag = "Bgra" THEN Some(self.data.arc) ELSE None

\* the bytes a slice into allocation a reads
SliceBytes(a) == heap[a].vec

VariantTag(data) ==
  CASE data.tag = "Bgra" -> "Bgra"
    [] data.tag = "CoreVideo" -> "CoreVideo"
    [] data.tag = "D3D11" -> "D3D11"

\* mutant: the pixel bytes of a CPU-backed frame are formatted as well, as a
\* derived Debug would do
fmt_with_payload(self) ==
  [name |-> "VideoFrame",
   fields |-> << <<"width", self.width>>, <<"height", self.height>>,
                 <<"data", VariantTag(self.data)>> >>
              \o (IF self.data.tag = "Bgra"
                    THEN << <<"bytes", heap[self.data.arc].vec>> >>
                    ELSE << >>)]

\* f.debug_struct("VideoFrame").field(..).field(..).field(..).finish()
fmt(self) ==
  [name |-> "VideoFrame",
   fields |-> << <<"width", self.width>>, <<"height", self.height>>,
                 <<"data", VariantTag(self.data)>> >>]

\* ------------------------------------------------------------ resources
Live(f) == frames[f] # NoFrame
FreeArcs == {a \in ArcIds : ~heap[a].live}
FreeSlots == {f \in FrameIds : ~Live(f)}
NewArc == CHOOSE a \in FreeArcs : \A b \in FreeArcs : a <= b
NewSlot == CHOOSE f \in FreeSlots : \A g \in FreeSlots : f <= g

\* a thread holds a slice borrowed from frame f: the borrow checker admits
\* neither a move (drop) of f nor a &mut to it until the borrow ends
Borrowed(f) == \E u \in Threads : pc[u].kind = "slice" /\ pc[u].frame = f

\* the frames and caller-held Arcs that refer to allocation a
FramesOn(a) ==
  {f \in FrameIds : Live(f) /\ frames[f].data.tag = "Bgra"
                    /\ frames[f].data.arc = a}
Holders(a) == Cardinality(FramesOn(a)) + held[a]

\* <Arc<T> as Drop>::drop by thread t: one fetch_sub; the thread that takes
\* the count to zero goes on to free the allocation
DropArc(t, a) ==
  /\ heap' = [heap EXCEPT ![a].strong = @ - 1]
  /\ pc' = [pc EXCEPT ![t] =
              IF heap[a].strong = 1 THEN [kind |-> "drop_slow", arc |-> a]
              ELSE Idle]

\* <Arc<T> as Clone>::clone: one fetch_add
CloneArc(a) == heap' = [heap EXCEPT ![a].strong = @ + 1]

\* ------------------------------------------------------------------ Init
\* overflow checks are observable only where debug assertions evaluate the
\* multiplication, so the fourth cfg combination adds no behaviour
Builds ==
  {b \in [debug_assertions : BOOLEAN, overflow_checks : BOOLEAN] :
     b.overflow_checks => b.debug_assertions}

Init ==
  /\ build \in Builds
  /\ platform \in Platforms
  /\ heap = [a \in ArcIds |-> NoBuf]
  /\ held = [a \in ArcIds |-> 0]
  /\ frames = [f \in FrameIds |-> NoFrame]
  /\ pc = [t \in Threads |-> Idle]
  /\ last = [op |-> "init"]

\* ------------------------------------------------- the callers' own Arcs
\* Arc::new(buffer) by a producer that keeps the buffer shared
Arc_new(t, buffer) ==
  /\ pc[t] = Idle
  /\ FreeArcs # {}
  /\ heap' = [heap EXCEPT ![NewArc] =
                [live |-> TRUE, vec |-> buffer, strong |-> 1]]
  /\ held' = [held EXCEPT ![NewArc] = 1]
  /\ last' = [op |-> "Arc::new", arc |-> NewArc]
  /\ UNCHANGED <<build, platform, frames, pc>>

Arc_clone(t, a) ==
  /\ pc[t] = Idle
  /\ held[a] > 0
  /\ heap[a].strong < MaxStrong
  /\ CloneArc(a)
  /\ held' = [held EXCEPT ![a] = @ + 1]
  /\ last' = [op |-> "Arc::clone", arc |-> a]
  /\ UNCHANGED <<build, platform, frames, pc>>

Arc_drop(t, a) ==
  /\ pc[t] = Idle
  /\ held[a] > 0
  /\ held' = [held EXCEPT ![a] = @ - 1]
  /\ DropArc(t, a)
  /\ last' = [op |-> "Arc::drop", arc |-> a]
  /\ UNCHANGED <<build, platform, frames>>

\* ---------------------------------------------------------- constructors
from_bgra(t, buffer, width, height) ==
  /\ pc[t] = Idle
  /\ LET r == from_bgra_check(buffer, width, height)
     IN IF r = "ok"
        THEN /\ FreeArcs # {} /\ FreeSlots # {}
             /\ heap' = [heap EXCEPT ![NewArc] =
                           [live |-> TRUE, vec |-> buffer, strong |-> 1]]
             /\ frames' = [frames EXCEPT ![NewSlot] =
                             VideoFrame(Bgra(NewArc), width, height)]
             /\ last' = [op |-> "from_bgra", outcome |-> r, buffer |-> buffer,
                         width |-> width, height |-> height, frame |-> NewSlot]
        ELSE \* the panic unwinds; the Vec passed by value is dropped
             /\ last' = [op |-> "from_bgra", outcome |-> r, buffer |-> buffer,
                         width |-> width, height |-> height, frame |-> 0]
             /\ UNCHANGED <<heap, frames>>
  /\ UNCHANGED <<build, platform, held, pc>>

from_bgra_arc(t, arc, width, height) ==
  /\ pc[t] = Idle
  /\ held[arc] > 0
  /\ held' = [held EXCEPT ![arc] = @ - 1]   \* the Arc is moved into the call
  /\ LET r == from_bgra_arc_check(arc, width, height)
     IN IF r = "ok"
        THEN /\ FreeSlots # {}
             /\ frames' = [frames EXCEPT ![NewSlot] =
                             VideoFrame(Bgra(arc), width, height)]
             /\ last' = [op |-> "from_bgra_arc", outcome |-> r, arc |-> arc,
                         buffer |-> heap[arc].vec,
                         width |-> width, height |-> height, frame |-> NewSlot]
             /\ UNCHANGED <<heap, pc>>
        ELSE \* the panic unwinds; the Arc passed by value is dropped
             /\ DropArc(t, arc)
             /\ last' = [op |-> "from_bgra_arc", outcome |-> r, arc |-> arc,
                         buffer |-> heap[arc].vec,
                         width |-> width, height |-> height, frame |-> 0]
             /\ UNCHANGED frames
  /\ UNCHANGED <<build, platform>>

from_cv_pixel_buffer(t, buffer) ==
  /\ platform = "macos"
  /\ pc[t] = Idle
  /\ FreeSlots # {}
  /\ LET width == AsU32(buffer.width)
         height == AsU32(buffer.height)
     IN frames' = [frames EXCEPT ![NewSlot] =
                     VideoFrame(CoreVideo(buffer), width, height)]
  /\ last' = [op |-> "from_cv_pixel_buffer", outcome |-> "ok",
              buffer |-> buffer, frame |-> NewSlot]
  /\ UNCHANGED <<build, platform, heap, held, pc>>

from_d3d11_texture(t, texture, subresource_index, width, height) ==
  /\ platform = "windows"
  /\ pc[t] = Idle
  /\ FreeSlots # {}
  /\ frames' = [frames EXCEPT ![NewSlot] =
                  VideoFrame(D3D11(texture, subresource_index), width, height)]
  /\ last' = [op |-> "from_d3d11_texture", outcome |-> "ok",
              texture |-> texture, subresource_index |-> subresource_index,
              width |-> width, height |-> height, frame |-> NewSlot]
  /\ UNCHANGED <<build, platform, heap, held, pc>>

\* ------------------------------------------------------- clone and drop
\* mutant: the frame is copied without cloning the Arc it holds
clone_without_count(t, f) ==
  /\ pc[t] = Idle
  /\ Live(f)
  /\ FreeSlots # {}
  /\ frames' = [frames EXCEPT ![NewSlot] = frames[f]]
  /\ last' = [op |-> "clone", src |-> f, frame |-> NewSlot]
  /\ UNCHANGED <<build, platform, heap, held, pc>>

\* #[derive(Clone)]: field-wise clone; cloning the Bgra payload clones the Arc
clone(t, f) ==
  /\ pc[t] = Idle
  /\ Live(f)
  /\ FreeSlots # {}
  /\ frames[f].data.tag = "Bgra" => heap[frames[f].data.arc].strong < MaxStrong
  /\ frames' = [frames EXCEPT ![NewSlot] = frames[f]]
  /\ IF frames[f].data.tag = "Bgra"
       THEN CloneArc(frames[f].data.arc)
       ELSE UNCHANGED heap
  /\ last' = [op |-> "clone", src |-> f, frame |-> NewSlot]
  /\ UNCHANGED <<build, platform, held, pc>>

\* mutant: dropping a frame frees the buffer whatever the count says
drop_freeing(t, f) ==
  /\ pc[t] = Idle
  /\ Live(f)
  /\ ~Borrowed(f)
  /\ frames' = [frames EXCEPT ![f] = NoFrame]
  /\ IF frames[f].data.tag = "Bgra"
       THEN /\ heap' = [heap EXCEPT ![frames[f].data.arc].strong = @ - 1]
            /\ pc' = [pc EXCEPT ![t] =
                        [kind |-> "drop_slow", arc |-> frames[f].data.arc]]
       ELSE UNCHANGED <<heap, pc>>
  /\ last' = [op |-> "drop", frame |-> f, data |-> frames[f].data]
  /\ UNCHANGED <<build, platform, held>>

\* the drop glue of VideoFrame: dropping the Bgra payload drops its Arc
drop(t, f) ==
  /\ pc[t] = Idle
  /\ Live(f)
  /\ ~Borrowed(f)
  /\ frames' = [frames EXCEPT ![f] = NoFrame]
  /\ IF frames[f].data.tag = "Bgra"
       THEN DropArc(t, frames[f].data.arc)
       ELSE UNCHANGED <<heap, pc>>
  /\ last' = [op |-> "drop", frame |-> f, data |-> frames[f].data]
  /\ UNCHANGED <<build, platform, held>>

\* Arc::drop_slow: the thread that released the last reference frees the Vec
drop_slow(t) ==
  /\ pc[t].kind = "drop_slow"
  /\ heap' = [heap EXCEPT ![pc[t].arc] = NoBuf]
  /\ pc' = [pc EXCEPT ![t] = Idle]
  /\ last' = [op |-> "drop_slow", arc |-> pc[t].arc]
  /\ UNCHANGED <<build, platform, held, frames>>

\* ------------------------------------------------------ accessor calls
call_size(t, f) ==
  /\ pc[t] = Idle
  /\ Live(f)
  /\ last' = [op |-> "size", frame |-> f, out |-> size(frames[f])]
  /\ UNCHANGED <<build, platform, heap, held, frames, pc>>

\* as_bytes(&self): a Some result borrows the frame until the slice is read
call_as_bytes(t, f) ==
  /\ pc[t] = Idle
  /\ Live(f)
  /\ LET r == as_bytes(frames[f])
     IN /\ last' = [op |-> "as_bytes", frame |-> f, out |-> r]
        /\ pc' = [pc EXCEPT ![t] =
                    IF r.some
                      THEN [kind |-> "slice", frame |-> f, arc |-> r.val]
                      ELSE Idle]
  /\ UNCHANGED <<build, platform, heap, held, frames>>

\* the consumer reads the bytes through the slice and ends the borrow
read_slice(t) ==
  /\ pc[t].kind = "slice"
  /\ last' = [op |-> "read", frame |-> pc[t].frame, arc |-> pc[t].arc,
              live |-> heap[pc[t].arc].live, out |-> SliceBytes(pc[t].arc)]
  /\ pc' = [pc EXCEPT ![t] = Idle]
  /\ UNCHANGED <<build, platform, heap, held, frames>>

call_fmt(t, f) ==
  /\ pc[t] = Idle
  /\ Live(f)
  /\ last' = [op |-> "fmt", frame |-> f, out |-> fmt(frames[f])]
  /\ UNCHANGED <<build, platform, heap, held, frames, pc>>

\* ------------------------------------------------- the public fields
\* `pub width: u32`: whoever holds the frame mutably may assign the field
set_width(t, f, width) ==
  /\ pc[t] = Idle
  /\ Live(f)
  /\ ~Borrowed(f)
  /\ frames' = [frames EXCEPT ![f].width = width]
  /\ last' = [op |-> "set_width", frame |-> f, width |-> width]
  /\ UNCHANGED <<build, platform, heap, held, pc>>

\* `pub height: u32`
set_height(t, f, height) ==
  /\ pc[t] = Idle
  /\ Live(f)
  /\ ~Borrowed(f)
  /\ frames' = [frames EXCEPT ![f].height = height]
  /\ last' = [op |-> "set_height", frame |-> f, height |-> height]
  /\ UNCHANGED <<build, platform, heap, held, pc>>

\* -------------------------------------------------------- specifications
\* Spec: the whole interface on one frame at a time, by one thread, with the
\* full range of arguments.
NoFrames == FreeSlots = FrameIds
NoArcs == \A a \in ArcIds : ~heap[a].live

Next ==
  \E t \in {1} :
    \/ \E buffer \in Vecs : NoFrames /\ NoArcs /\ Arc_new(t, buffer)
    \/ \E buffer \in Vecs, width \in Dims, height \in Dims :
         NoFrames /\ NoArcs /\ from_bgra(t, buffer, width, height)
    \/ \E a \in ArcIds, width \in Dims, height \in Dims :
         NoFrames /\ from_bgra_arc(t, a, width, height)
    \/ \E buffer \in CVPixelBuffers :
         NoFrames /\ NoArcs /\ from_cv_pixel_buffer(t, buffer)
    \/ \E texture \in Textures, sub \in SubIndexes,
          width \in Dims, height \in Dims :
         NoFrames /\ NoArcs /\ from_d3d11_texture(t, texture, sub, width, height)
    \/ \E f \in FrameIds : drop(t, f)
    \/ drop_slow(t)
    \/ \E f \in FrameIds : call_size(t, f)
    \/ \E f \in FrameIds : call_as_bytes(t, f)
    \/ read_slice(t)
    \/ \E f \in FrameIds : call_fmt(t, f)
    \/ \E f \in FrameIds, width \in Dims : set_width(t, f, width)
    \/ \E f \in FrameIds, height \in Dims : set_height(t, f, height)

Spec == Init /\ [][Next]_vars

\* SpecShare: frames and caller-held Arcs sharing pixel buffers, used by two
\* threads; CPU-backed frames only, in the dev profile, where a construction
\* either returns a frame or panics and drops the Arc passed to it.
\* the bytes a producer of SpecShare puts into allocation a: one pixel, and
\* different bytes in different allocations
ShareBytes(a) == Pattern(4, a)

ShareInit ==
  /\ Init
  /\ platform = "linux"
  /\ build.debug_assertions /\ build.overflow_checks

ShareNext ==
  \E t \in Threads :
    \/ \E a \in FreeArcs : a = NewArc /\ Arc_new(t, ShareBytes(a))
    \/ \E a \in ArcIds : Arc_clone(t, a)
    \/ \E a \in ArcIds : Arc_drop(t, a)
    \/ \E a \in ArcIds, width \in {1}, height \in FewDims :
         from_bgra_arc(t, a, width, height)
    \/ \E f \in FrameIds : clone(t, f)
    \/ \E f \in FrameIds : drop(t, f)
    \/ drop_slow(t)
    \/ \E f \in FrameIds : call_size(t, f)
    \/ \E f \in FrameIds : call_as_bytes(t, f)
    \/ read_slice(t)

SpecShare == ShareInit /\ [][ShareNext]_vars

\* SpecFmt: several frames of every variant at once, and their Debug output.
FmtNext ==
  \E t \in {1} :
    \/ \E buffer \in FewVecs, width \in FewDims, height \in FewDims :
         from_bgra(t, buffer, width, height)
    \/ \E buffer \in FewCVPixelBuffers : from_cv_pixel_buffer(t, buffer)
    \/ \E texture \in Textures, sub \in SubIndexes,
          width \in FewDims, height \in FewDims :
         from_d3d11_texture(t, texture, sub, width, height)
    \/ \E f \in FrameIds : clone(t, f)
    \/ \E f \in FrameIds : drop(t, f)
    \/ drop_slow(t)
    \/ \E f \in FrameIds : call_fmt(t, f)

SpecFmt == Init /\ [][FmtNext]_vars

\* ================================================================ claims
\* width * height * 4 as a mathematical product
MathLen(width, height) == width * height * 4

\* what as_bytes() of the frame in slot f lets its caller read
BytesOf(f) ==
  LET r == as_bytes(frames[f])
  IN IF r.some THEN Some(SliceBytes(r.val)) ELSE None

IsCpuCtor == last.op \in {"from_bgra", "from_bgra_arc"}

\* C1: for every width > 0, height > 0 and every buffer of exactly
\* width*height*4 bytes, from_bgra returns a frame whose as_bytes() is Some of
\* the same bytes and whose size() is (width, height).
C1_FromBgraRoundTrip ==
  (/\ last.op = "from_bgra"
   /\ last.width > 0 /\ last.height > 0
   /\ Len(last.buffer) = MathLen(last.width, last.height))
  => /\ last.outcome = "ok"
     /\ BytesOf(last.frame) = Some(last.buffer)
     /\ size(frames[last.frame]) = <<last.width, last.height>>

\* C2: a CPU-backed construction from a buffer whose length differs from
\* width*height*4 fails in a build with debug assertions (any panic is counted
\* as that failure) and returns a frame in a build without them.
C2_MismatchFailsOnlyInDebug ==
  (IsCpuCtor /\ Len(last.buffer) # MathLen(last.width, last.height))
  => IF build.debug_assertions
       THEN last.outcome # "ok"
       ELSE last.outcome = "ok" /\ Live(last.frame)

\* C9: with debug assertions, a CPU-backed construction succeeds exactly when
\* the buffer length equals the mathematical product width*height*4.
C9_CheckIsMathematical ==
  (build.debug_assertions /\ IsCpuCtor)
  => (last.outcome = "ok"
      <=> Len(last.buffer) = MathLen(last.width, last.height))

\* C10 as claimed: with debug assertions, a CPU-backed construction with
\* width = 0 or height = 0 produces no frame, whatever the buffer.
C10_ZeroDimensionRejected ==
  (build.debug_assertions /\ IsCpuCtor
   /\ (last.width = 0 \/ last.height = 0))
  => last.outcome # "ok"

\* C10 as amended: with debug assertions, a CPU-backed construction with
\* width = 0 or height = 0 produces a frame exactly when the buffer is empty;
\* the frame then has the zero dimension passed and no bytes.
C10_ZeroDimensionNeedsEmptyBuffer ==
  (build.debug_assertions /\ IsCpuCtor
   /\ (last.width = 0 \/ last.height = 0))
  => /\ last.outcome = "ok" <=> Len(last.buffer) = 0
     /\ last.outcome = "ok"
          => /\ size(frames[last.frame]) = <<last.width, last.height>>
             /\ BytesOf(last.frame) = Some(<<>>)

C10_Witness ==
  /\ build.debug_assertions
  /\ last.op = "from_bgra"
  /\ last.width = 0
  /\ last.outcome = "ok"
  /\ Live(last.frame)

\* C6: a GPU-backed construction gives a frame whose as_bytes() is None, whose
\* size() is the dimensions passed (D3D11) or reported by the handle
\* (CoreVideo), and whose subresource index is the one passed; as_bytes() is
\* Some exactly for the Bgra variant.
C6_GpuConstruction ==
  /\ last.op = "from_cv_pixel_buffer"
       => /\ as_bytes(frames[last.frame]) = None
          /\ size(frames[last.frame]) =
               <<last.buffer.width, last.buffer.height>>
  /\ last.op = "from_d3d11_texture"
       => /\ as_bytes(frames[last.frame]) = None
          /\ size(frames[last.frame]) = <<last.width, last.height>>
          /\ frames[last.frame].data.subresource_index =
               last.subresource_index
  /\ \A f \in FrameIds :
       Live(f) => (as_bytes(frames[f]).some <=> frames[f].data.tag = "Bgra")

\* C7: from_bgra_arc on a shared buffer and from_bgra on an owned copy of the
\* same bytes fail together or succeed together, with equal as_bytes() and
\* size(); the frame of from_bgra_arc holds the caller's allocation itself and
\* no other allocation is made.
C7_SharedEquivalentToOwned ==
  /\ last.op = "from_bgra_arc"
       => /\ last.outcome =
               from_bgra_check(last.buffer, last.width, last.height)
          /\ last.outcome = "ok"
               => /\ size(frames[last.frame]) = <<last.width, last.height>>
                  /\ BytesOf(last.frame) = Some(last.buffer)
                  /\ frames[last.frame].data = Bgra(last.arc)
                  /\ {a \in ArcIds : heap[a].live} = {last.arc}
  /\ (last.op = "from_bgra" /\ last.outcome = "ok")
       => /\ size(frames[last.frame]) = <<last.width, last.height>>
          /\ BytesOf(last.frame) = Some(last.buffer)

C7_Witness ==
  /\ last.op = "from_bgra_arc"
  /\ last.outcome = "ok"
  /\ Len(last.buffer) > 0
  /\ build.debug_assertions

\* C4: a frame live before and after a step has the width, height, variant
\* and bytes it had before the step.
C4_FrameImmutable ==
  [][\A f \in FrameIds :
       (frames[f] # NoFrame /\ frames'[f] # NoFrame)
       => /\ frames'[f] = frames[f]
          /\ frames[f].data.tag = "Bgra"
               => heap'[frames[f].data.arc].vec = heap[frames[f].data.arc].vec
    ]_vars

\* C5: the Debug output of a frame names the struct and reports width, height
\* and the name of the active variant; two frames agree on width, height and
\* variant exactly when their Debug outputs are equal, whatever their bytes
\* or handles.
C5_DebugShowsOnlyShape ==
  /\ \A f \in FrameIds :
       Live(f)
       => /\ fmt(frames[f]).name = "VideoFrame"
          /\ fmt(frames[f]).fields[1] = <<"width", frames[f].width>>
          /\ fmt(frames[f]).fields[2] = <<"height", frames[f].height>>
          /\ fmt(frames[f]).fields[3] = <<"data", frames[f].data.tag>>
          /\ Len(fmt(frames[f]).fields) = 3
  /\ \A f, g \in FrameIds :
       (Live(f) /\ Live(g))
       => ((/\ frames[f].width = frames[g].width
            /\ frames[f].height = frames[g].height
            /\ frames[f].data.tag = frames[g].data.tag)
           <=> fmt(frames[f]) = fmt(frames[g]))
  /\ last.op = "fmt" => last.out = fmt(frames[last.frame])

C5_Witness ==
  /\ last.op = "fmt"
  /\ \E f, g \in FrameIds :
       /\ Live(f) /\ Live(g)
       /\ frames[f].data.tag = "Bgra" /\ frames[g].data.tag = "Bgra"
       /\ size(frames[f]) = size(frames[g])
       /\ BytesOf(f) # BytesOf(g)

\* the counting part of C3, in every state
C3_Counted ==
  \A a \in ArcIds :
    IF heap[a].live THEN heap[a].strong = Holders(a) ELSE Holders(a) = 0

\* the part of C3 about single steps: drop, free, clone, survivors
C3_Step ==
  /\ (last'.op = "drop" /\ last'.data.tag = "Bgra")
       => /\ heap'[last'.data.arc].strong = heap[last'.data.arc].strong - 1
          /\ \A b \in ArcIds \ {last'.data.arc} : heap'[b] = heap[b]
  /\ \A a \in ArcIds :
       (heap[a].live /\ ~heap'[a].live) => Holders(a) = 0
  /\ last'.op = "clone"
       => /\ size(frames'[last'.frame]) = size(frames[last'.src])
          /\ as_bytes(frames'[last'.frame]) = as_bytes(frames[last'.src])
  /\ \A f \in FrameIds :
       (frames[f] # NoFrame /\ frames'[f] # NoFrame)
       => /\ frames'[f] = frames[f]
          /\ frames[f].data.tag = "Bgra"
               => /\ heap'[frames[f].data.arc].live
                  /\ heap'[frames[f].data.arc].vec
                       = heap[frames[f].data.arc].vec

\* C3: the strong count of every live allocation is the number of frames and
\* caller-held Arcs referring to it, and a freed allocation has none; dropping
\* a frame takes exactly one reference; an allocation is freed only once
\* nothing refers to it; a clone observes the size and bytes of its original,
\* and every frame surviving a step keeps its size and bytes.
C3_SharedOwnership == []C3_Counted /\ [][C3_Step]_vars

C3_Witness ==
  /\ last.op = "drop"
  /\ last.frame = 1
  /\ Live(2)
  /\ frames[2].data = last.data
  /\ heap[last.data.arc].live
  /\ held[last.data.arc] = 0

\* the part of C8 about slices and reads, in every state
C8_SliceValid ==
  /\ \A t \in Threads :
       pc[t].kind = "slice"
       => /\ heap[pc[t].arc].live
          /\ frames[pc[t].frame].data = Bgra(pc[t].arc)
  /\ last.op = "read" => last.live /\ last.out = ShareBytes(last.arc)

\* the part of C8 about single steps: no write to shared bytes
C8_NoWrite ==
  \A a \in ArcIds :
    (heap[a].live /\ heap'[a].live) => heap'[a].vec = heap[a].vec

\* C8: under every interleaving of the two threads, a slice a thread holds
\* points into a live allocation still held by the frame it was borrowed
\* from, every read happens on a live allocation and returns the bytes the
\* allocation was created with, and no step changes the bytes of a live
\* allocation.
C8_ConcurrentReads == []C8_SliceValid /\ [][C8_NoWrite]_vars

C8_Witness ==
  \E t \in Threads :
    /\ pc[t].kind = "slice"
    /\ last.op = "drop"
    /\ last.data = Bgra(pc[t].arc)

====
